---- MODULE Spec2Model ----
(***************************************************************************)
(* State machine of the App component of showTransferDataWeb               *)
(* (src/showTransferDataWeb/src/App.tsx): the wallet account read through  *)
(* useAccount, the component's useState cells, and the fetchTransfers      *)
(* invocations that are suspended at one of their two awaits.              *)
(*                                                                         *)
(* inflight lists the suspended invocations in the order they were         *)
(* triggered; an entry holds the request it issued (req) and the await it  *)
(* is at (stage: "fetch" for line 51, "json" for line 53).                 *)
(*                                                                         *)
(* Every callback of the component runs to completion on the UI thread,    *)
(* so each action below is one callback (a click handler, or the           *)
(* continuation of fetchTransfers after an await) with all the setState    *)
(* calls it makes.                                                         *)
(*                                                                         *)
(* History, modelling no program state: the variable event records what    *)
(* the last step was, the input it consumed and the values it found; an    *)
(* entry of inflight records the values its request was built from (at)    *)
(* and whether a later-triggered invocation has already applied its        *)
(* response (stale).                                                       *)
(***************************************************************************)
EXTENDS Integers, Sequences, FiniteSets

VARIABLES account, transfers, pagination, filter, isLoading, fetchError,
          selectedTransfer, inflight, event

vars == <<account, transfers, pagination, filter, isLoading, fetchError,
          selectedTransfer, inflight, event>>

view == <<transfers, pagination, filter, isLoading, fetchError, selectedTransfer>>

(***************************************************************************)
(* Bounds of the model.                                                    *)
(***************************************************************************)
\* longest transfer list a response carries
MaxLen == 1
\* largest page / pages value a response carries
MaxPage == 2
\* most fetchTransfers invocations suspended at once
MaxInFlight == 2

(***************************************************************************)
(* Values.                                                                 *)
(***************************************************************************)
\* account.address when no wallet is connected (JavaScript undefined)
Undefined == "#undefined"

Addresses == {"0xA"}

Filters == {"all", "in", "out"}

\* type Transfer
Transfer == {[from |-> "0xA", to |-> "0xB", value |-> "100", timestamp |-> 1000],
             [from |-> "0xB", to |-> "0xA", value |-> "7", timestamp |-> 2000]}

TransferLists == UNION {[1..n -> Transfer] : n \in 0..MaxLen}

\* the initial value of the pagination cell, and the fallback of line 55
DefaultPagination == [page |-> 1, limit |-> 10, total |-> 0, pages |-> 1]

\* limit and total of a response; both differ from the fallback's
Limits == {25}

Totals == {3}

\* pagination objects a response may carry (spec section 3: page >= 1,
\* limit > 0, total >= 0, pages >= 0)
Paginations == [page : 1..MaxPage, limit : Limits, total : Totals, pages : 0..MaxPage]

\* parsed response bodies: each of the two fields is present or absent
Bodies == {[hasTransfers |-> TRUE, transfers |-> l, hasPagination |-> TRUE, pagination |-> p] :
              l \in TransferLists, p \in Paginations}
          \cup {[hasTransfers |-> FALSE, transfers |-> <<>>, hasPagination |-> TRUE, pagination |-> p] :
              p \in Paginations}
          \cup {[hasTransfers |-> TRUE, transfers |-> l, hasPagination |-> FALSE, pagination |-> DefaultPagination] :
              l \in TransferLists}
          \cup {[hasTransfers |-> FALSE, transfers |-> <<>>, hasPagination |-> FALSE, pagination |-> DefaultPagination]}

NoBody == [hasTransfers |-> FALSE, transfers |-> <<>>, hasPagination |-> FALSE, pagination |-> DefaultPagination]

\* the Error thrown at line 52
NotOkError == [isError |-> TRUE, message |-> "Network response was not ok"]

\* what fetch() rejects with: a TypeError
TransportErrors == {[isError |-> TRUE, message |-> "Failed to fetch"]}

\* what lines 53-54 throw: the SyntaxError of response.json()
BodyErrors == {[isError |-> TRUE, message |-> "Unexpected end of JSON input"]}

NoError == [isError |-> FALSE, message |-> ""]

(***************************************************************************)
(* Pure parts of fetchTransfers and of the render.                         *)
(***************************************************************************)
Digits == <<"0", "1", "2", "3", "4", "5", "6", "7", "8", "9">>

\* Number.prototype.toString of a non-negative integer
RECURSIVE toString(_)
toString(n) ==
    IF n < 10 THEN Digits[n + 1]
    ELSE toString(n \div 10) \o Digits[(n % 10) + 1]

\* the template literal of line 44: undefined is written as "undefined"
PathSegment(address) == IF address = Undefined THEN "undefined" ELSE address

\* mutant of BuildQuery: the type parameter is set whatever the filter is
BuildQueryAlwaysTyped(pg, flt) ==
    [page |-> toString(pg.page), limit |-> toString(pg.limit), type |-> flt]

\* lines 45-49: the search parameters of the request
BuildQuery(pg, flt) ==
    LET base == [page |-> toString(pg.page), limit |-> toString(pg.limit)]
    IN  IF flt # "all"
        THEN [page |-> base.page, limit |-> base.limit, type |-> flt]
        ELSE base

\* lines 44-51: the request that fetch() is handed
BuildRequest(acct, pg, flt) ==
    [path |-> "/api/transfers/" \o PathSegment(acct.address), query |-> BuildQuery(pg, flt)]

\* mutant of TransfersOrDefault: an absent field keeps the displayed list
TransfersKeptWhenAbsent(data) == IF data.hasTransfers THEN data.transfers ELSE transfers

\* line 54: data.transfers || []
TransfersOrDefault(data) == IF data.hasTransfers THEN data.transfers ELSE <<>>

\* lines 55-60: data.pagination || {page: 1, limit: 10, total: 0, pages: 1}
PaginationOrDefault(data) == IF data.hasPagination THEN data.pagination ELSE DefaultPagination

\* line 62: err instanceof Error ? err.message : 'Unknown error'
ErrorMessage(err) == IF err.isError THEN err.message ELSE "Unknown error"

\* line 83: the block holding Disconnect, Fetch Transfers and the filter radios
ControlsShown == account.status = "connected"

\* mutant of FetchAvailable: the button is rendered outside the block of line 83
FetchAlwaysAvailable == TRUE

\* line 88: the Fetch Transfers button can be pressed
FetchAvailable == ControlsShown

\* line 136: the table and the pagination controls are rendered
TableShown == Len(transfers) > 0

\* line 168
PreviousDisabled == pagination.page <= 1

\* mutant of NextDisabled: the comparison is off by one
NextDisabledOffByOne == pagination.page > pagination.pages

\* line 177
NextDisabled == pagination.page >= pagination.pages

\* history: the values a step found, as far as the step's record keeps them
Before(t, p, f, l, e, s, q) ==
    [transfers |-> t, pagination |-> p, filter |-> f, isLoading |-> l,
     fetchError |-> e, selectedTransfer |-> s, inflight |-> q]

NoBefore == Before(<<>>, DefaultPagination, "all", FALSE, "", <<>>, <<>>)

\* history: everything the step found
Found == Before(transfers, pagination, filter, isLoading, fetchError, selectedTransfer, inflight)

\* history: the list and the pagination the step found
FoundData == Before(transfers, pagination, "all", FALSE, "", <<>>, <<>>)

\* history: the list, the pagination and the suspended invocations the step found
FoundAtFetch == Before(transfers, pagination, "all", FALSE, "", <<>>, inflight)

\* history: the values fetchTransfers read when it built its request
ReadAtTrigger ==
    [address |-> account.address, page |-> pagination.page,
     limit |-> pagination.limit, filter |-> filter]

\* history: the record of a step that consumes no response
Ev(op, before) ==
    [op |-> op, data |-> NoBody, err |-> NoError, stale |-> FALSE, before |-> before]

\* the sequence s without its i-th element
RemoveAt(s, i) == [k \in 1..(Len(s) - 1) |-> IF k < i THEN s[k] ELSE s[k + 1]]

\* the invocations left suspended once invocation i has applied its response;
\* those triggered before it are marked stale (history only)
AfterApply(i) ==
    RemoveAt([k \in 1..Len(inflight) |->
                 IF k < i THEN [inflight[k] EXCEPT !.stale = TRUE] ELSE inflight[k]], i)

(***************************************************************************)
(* Initial state: lines 13-38.                                             *)
(***************************************************************************)
Init ==
    /\ account = [status |-> "disconnected", address |-> Undefined]
    /\ transfers = <<>>
    /\ pagination = DefaultPagination
    /\ filter = "all"
    /\ isLoading = FALSE
    /\ fetchError = ""
    /\ selectedTransfer = <<>>
    /\ inflight = <<>>
    /\ event = Ev("init", NoBefore)

(***************************************************************************)
(* The wallet connector (wagmi), as the component observes it.             *)
(***************************************************************************)
\* line 124: the connector's button is pressed and it starts connecting.
\* Pressing it while connecting or connected changes nothing the component
\* reads from useAccount.
Connect ==
    /\ account.status = "disconnected"
    /\ account' = [account EXCEPT !.status = "connecting"]
    /\ event' = Ev("other", FoundData)
    /\ UNCHANGED <<view, inflight>>

\* the connector reports an account
ConnectSucceeded(a) ==
    /\ account.status = "connecting"
    /\ account' = [status |-> "connected", address |-> a]
    /\ event' = Ev("other", FoundData)
    /\ UNCHANGED <<view, inflight>>

\* the connector reports an error (shown at line 131)
ConnectFailed ==
    /\ account.status = "connecting"
    /\ account' = [account EXCEPT !.status = "disconnected"]
    /\ event' = Ev("other", FoundData)
    /\ UNCHANGED <<view, inflight>>

\* mutant of Disconnect: the handler also clears the list and the overlay
DisconnectClearsView ==
    /\ ControlsShown
    /\ account' = [status |-> "disconnected", address |-> Undefined]
    /\ transfers' = <<>>
    /\ selectedTransfer' = <<>>
    /\ event' = Ev("disconnect", Found)
    /\ UNCHANGED <<pagination, filter, isLoading, fetchError, inflight>>

\* lines 85-87: the Disconnect button
Disconnect ==
    /\ ControlsShown
    /\ account' = [status |-> "disconnected", address |-> Undefined]
    /\ event' = Ev("disconnect", Found)
    /\ UNCHANGED <<view, inflight>>

(***************************************************************************)
(* Local controls.                                                         *)
(***************************************************************************)
\* mutant of SetFilter: the handler also goes back to the first page
SetFilterResetsPage(v) ==
    /\ ControlsShown
    /\ v # filter
    /\ filter' = v
    /\ pagination' = [pagination EXCEPT !.page = 1]
    /\ event' = Ev("setFilter", Found)
    /\ UNCHANGED <<account, transfers, isLoading, fetchError, selectedTransfer, inflight>>

\* lines 90-113: a filter radio that is not the checked one is chosen
SetFilter(v) ==
    /\ ControlsShown
    /\ v # filter
    /\ filter' = v
    /\ event' = Ev("setFilter", Found)
    /\ UNCHANGED <<account, transfers, pagination, isLoading, fetchError,
                   selectedTransfer, inflight>>

\* lines 167-172: Previous
PreviousPage ==
    /\ TableShown
    /\ ~PreviousDisabled
    /\ pagination' = [pagination EXCEPT !.page = pagination.page - 1]
    /\ event' = Ev("previous", Found)
    /\ UNCHANGED <<account, transfers, filter, isLoading, fetchError,
                   selectedTransfer, inflight>>

\* lines 176-181: Next
NextPage ==
    /\ TableShown
    /\ ~NextDisabled
    /\ pagination' = [pagination EXCEPT !.page = pagination.page + 1]
    /\ event' = Ev("next", Found)
    /\ UNCHANGED <<account, transfers, filter, isLoading, fetchError,
                   selectedTransfer, inflight>>

\* lines 155-160: the date cell of row i is clicked
SelectTransfer(i) ==
    /\ i \in 1..Len(transfers)
    /\ selectedTransfer' = <<transfers[i]>>
    /\ event' = Ev("other", FoundData)
    /\ UNCHANGED <<account, transfers, pagination, filter, isLoading, fetchError, inflight>>

\* lines 186, 219-224: Close on the detail overlay
CloseDetail ==
    /\ selectedTransfer # <<>>
    /\ selectedTransfer' = <<>>
    /\ event' = Ev("other", FoundData)
    /\ UNCHANGED <<account, transfers, pagination, filter, isLoading, fetchError, inflight>>

(***************************************************************************)
(* fetchTransfers: lines 40-67.                                            *)
(***************************************************************************)
\* lines 41-51: the click, up to the first await
FetchTransfers ==
    /\ FetchAvailable
    /\ Len(inflight) < MaxInFlight
    /\ isLoading' = TRUE
    /\ fetchError' = ""
    /\ inflight' = Append(inflight,
                          [req |-> BuildRequest(account, pagination, filter),
                           stage |-> "fetch", stale |-> FALSE, at |-> ReadAtTrigger])
    /\ event' = Ev("fetch", FoundAtFetch)
    /\ UNCHANGED <<account, transfers, pagination, filter, selectedTransfer>>

\* mutant of Fail: the catch block also empties the list
FailClearsList(i, err, op) ==
    /\ fetchError' = ErrorMessage(err)
    /\ isLoading' = FALSE
    /\ transfers' = <<>>
    /\ inflight' = RemoveAt(inflight, i)
    /\ event' = [op |-> op, data |-> NoBody, err |-> err, stale |-> inflight[i].stale,
                 before |-> FoundData]
    /\ UNCHANGED <<account, pagination, filter, selectedTransfer>>

\* lines 61-66: the catch and finally blocks, for invocation i throwing err
Fail(i, err, op) ==
    /\ fetchError' = ErrorMessage(err)
    /\ isLoading' = FALSE
    /\ inflight' = RemoveAt(inflight, i)
    /\ event' = [op |-> op, data |-> NoBody, err |-> err, stale |-> inflight[i].stale,
                 before |-> FoundData]
    /\ UNCHANGED <<account, transfers, pagination, filter, selectedTransfer>>

\* line 51 rejects: transport failure
FetchRejected(i, err) ==
    /\ i \in 1..Len(inflight)
    /\ inflight[i].stage = "fetch"
    /\ Fail(i, err, "transportFailure")

\* line 52: the response arrived with a non-2xx status
ResponseNotOk(i) ==
    /\ i \in 1..Len(inflight)
    /\ inflight[i].stage = "fetch"
    /\ Fail(i, NotOkError, "notOk")

\* lines 51-53: the response arrived with a 2xx status; the body is awaited
ResponseOk(i) ==
    /\ i \in 1..Len(inflight)
    /\ inflight[i].stage = "fetch"
    /\ inflight' = [inflight EXCEPT ![i].stage = "json"]
    /\ event' = Ev("other", FoundData)
    /\ UNCHANGED <<account, view>>

\* line 53 rejects: the body cannot be parsed
JsonRejected(i, err) ==
    /\ i \in 1..Len(inflight)
    /\ inflight[i].stage = "json"
    /\ Fail(i, err, "bodyFailure")

\* mutant of JsonResolved: a response is dropped when a later-triggered
\* invocation has already applied its own
JsonResolvedUnlessStale(i, data) ==
    /\ i \in 1..Len(inflight)
    /\ inflight[i].stage = "json"
    /\ transfers' = IF inflight[i].stale THEN transfers ELSE TransfersOrDefault(data)
    /\ pagination' = IF inflight[i].stale THEN pagination ELSE PaginationOrDefault(data)
    /\ isLoading' = FALSE
    /\ inflight' = AfterApply(i)
    /\ event' = [op |-> "apply", data |-> data, err |-> NoError, stale |-> inflight[i].stale,
                 before |-> NoBefore]
    /\ UNCHANGED <<account, filter, fetchError, selectedTransfer>>

\* lines 53-60 and 65: the body is parsed and applied
JsonResolved(i, data) ==
    /\ i \in 1..Len(inflight)
    /\ inflight[i].stage = "json"
    /\ transfers' = TransfersOrDefault(data)
    /\ pagination' = PaginationOrDefault(data)
    /\ isLoading' = FALSE
    /\ inflight' = AfterApply(i)
    /\ event' = [op |-> "apply", data |-> data, err |-> NoError, stale |-> inflight[i].stale,
                 before |-> NoBefore]
    /\ UNCHANGED <<account, filter, fetchError, selectedTransfer>>

Next ==
    \/ Connect
    \/ \E a \in Addresses : ConnectSucceeded(a)
    \/ ConnectFailed
    \/ Disconnect
    \/ \E v \in Filters : SetFilter(v)
    \/ PreviousPage
    \/ NextPage
    \/ \E i \in 1..MaxLen : SelectTransfer(i)
    \/ CloseDetail
    \/ FetchTransfers
    \/ \E i \in 1..MaxInFlight : \E err \in TransportErrors : FetchRejected(i, err)
    \/ \E i \in 1..MaxInFlight : ResponseNotOk(i)
    \/ \E i \in 1..MaxInFlight : ResponseOk(i)
    \/ \E i \in 1..MaxInFlight : \E err \in BodyErrors : JsonRejected(i, err)
    \/ \E i \in 1..MaxInFlight : \E data \in Bodies : JsonResolved(i, data)

Spec == Init /\ [][Next]_vars

(***************************************************************************)
(* Properties.                                                             *)
(***************************************************************************)
FailOps == {"notOk", "transportFailure", "bodyFailure"}

ResolveOps == FailOps \cup {"apply"}

SetPageOps == {"previous", "next"}

\* the list and pagination a response body stands for, written out
BodyTransfers(data) == IF data.hasTransfers THEN data.transfers ELSE <<>>

BodyPagination(data) ==
    IF data.hasPagination THEN data.pagination
    ELSE [page |-> 1, limit |-> 10, total |-> 0, pages |-> 1]

C2_FailureKeepsListAndPagination ==
    event.op \in FailOps =>
        /\ transfers = event.before.transfers
        /\ pagination = event.before.pagination
        /\ fetchError # ""
        /\ (event.op = "notOk" => fetchError = "Network response was not ok")

\* C2 witness: a non-2xx response has been handled while a fetched list and
\* pagination were displayed.
C2_Witness ==
    /\ event.op = "notOk"
    /\ Len(transfers) = 1
    /\ pagination.limit = 25
    /\ fetchError = "Network response was not ok"

\* C3: in every reachable state the loading flag is true if and only if at
\* least one fetchTransfers invocation is in flight.
C3_LoadingIffInFlight == isLoading <=> (inflight # <<>>)

\* C4: a setFilter step changes the filter and nothing else (list,
\* pagination, loading flag, error message, selected transfer) and issues no
\* request; the displayed list changes only at a step that applies a
\* response.
C4_SetFilterChangesOnlyFilter ==
    /\ event.op = "setFilter" =>
          /\ filter # event.before.filter
          /\ transfers = event.before.transfers
          /\ pagination = event.before.pagination
          /\ isLoading = event.before.isLoading
          /\ fetchError = event.before.fetchError
          /\ selectedTransfer = event.before.selectedTransfer
          /\ inflight = event.before.inflight
    /\ event.op \notin {"init", "apply"} => transfers = event.before.transfers

\* C4 witness: the filter has just been changed while a fetched list is
\* displayed and a fetch is suspended.
C4_Witness ==
    /\ event.op = "setFilter"
    /\ filter = "out"
    /\ Len(transfers) = 1
    /\ Len(inflight) = 1
    /\ isLoading

\* what C5 says of every setPage step, but for the range of the page
C5_StepShape ==
    /\ event.op = "previous" =>
          /\ event.before.pagination.page > 1
          /\ pagination.page = event.before.pagination.page - 1
    /\ event.op = "next" =>
          /\ event.before.pagination.page < event.before.pagination.pages
          /\ pagination.page = event.before.pagination.page + 1
    /\ event.op \in SetPageOps =>
          /\ pagination.limit = event.before.pagination.limit
          /\ pagination.total = event.before.pagination.total
          /\ pagination.pages = event.before.pagination.pages
          /\ transfers = event.before.transfers
          /\ inflight = event.before.inflight

\* C5 as stated: Previous acts only when page > 1 and Next only when
\* page < pages, each changes page by exactly 1 and nothing else of the
\* pagination or the list and issues no request, and no setPage step
\* produces a page below 1 or above pages.
C5_Original ==
    /\ C5_StepShape
    /\ event.op \in SetPageOps =>
          /\ pagination.page >= 1
          /\ pagination.page <= pagination.pages

\* C5 as amended: the same, except that only the bound the pressed control
\* guards is kept: Previous never produces a page below 1 and Next never
\* produces a page above pages.
C5_SetPageGuardedByItsOwnBound ==
    /\ C5_StepShape
    /\ event.op = "previous" => pagination.page >= 1
    /\ event.op = "next" => pagination.page <= pagination.pages

\* C5 witness: Previous has been pressed and the page it produced is still
\* above pages.
C5_Witness ==
    /\ event.op = "previous"
    /\ pagination.page = 1
    /\ pagination.pages = 0

\* C6: every request in flight carries the page and limit the pagination
\* state had when its fetch was triggered, and a type parameter exactly when
\* the filter then was not 'all', equal to that filter; steps taken while it
\* is in flight do not alter it.
C6_RequestBuiltFromTriggerState ==
    \A k \in 1..Len(inflight) :
        LET q == inflight[k].req.query
            at == inflight[k].at
        IN  /\ q.page = toString(at.page)
            /\ q.limit = toString(at.limit)
            /\ ("type" \in DOMAIN q) <=> (at.filter # "all")
            /\ at.filter # "all" => q.type = at.filter
            /\ (k = Len(inflight) /\ event.op = "fetch") =>
                  /\ at.page = pagination.page
                  /\ at.limit = pagination.limit
                  /\ at.filter = filter

\* C6 witness: a request built for page 2, limit 25, filter 'in' is still in
\* flight after the filter and the page have been changed.
C6_Witness ==
    /\ Len(inflight) = 1
    /\ inflight[1].req.query = [page |-> "2", limit |-> "25", type |-> "in"]
    /\ filter = "all"
    /\ pagination.page = 1
    /\ event.op = "previous"

\* C7: a fetch triggered while another is unresolved cancels nothing, and a
\* response is applied when it resolves even if a later-triggered invocation
\* has already applied its own: the list and pagination are then those of
\* the response that resolved last.
C7_LastResolvedResponseWins ==
    /\ event.op = "fetch" =>
          /\ Len(inflight) = Len(event.before.inflight) + 1
          /\ \A k \in 1..Len(event.before.inflight) : inflight[k] = event.before.inflight[k]
    /\ (event.op = "apply" /\ event.stale) =>
          /\ transfers = BodyTransfers(event.data)
          /\ pagination = BodyPagination(event.data)

\* C7 witness: both of two overlapping invocations have resolved and the
\* one triggered first was applied last.
C7_Witness ==
    /\ event.op = "apply"
    /\ event.stale
    /\ inflight = <<>>
    /\ Len(transfers) = 1
    /\ pagination.pages = 2

\* C8: a request is issued only while the account is connected and has an
\* address, so no request in flight targets the path segment 'undefined'.
C8_RequestsOnlyWhenConnected ==
    /\ event.op = "fetch" =>
          /\ account.status = "connected"
          /\ account.address # Undefined
    /\ \A k \in 1..Len(inflight) :
          /\ inflight[k].at.address # Undefined
          /\ inflight[k].req.path # "/api/transfers/undefined"

\* C8 witness: a request for the connected address has just been issued.
C8_Witness ==
    /\ event.op = "fetch"
    /\ inflight[Len(inflight)].req.path = "/api/transfers/0xA"

\* C9: a disconnect step changes no local view state and cancels no fetch in
\* flight, and a response that resolves after the disconnect is still
\* applied to the list and the pagination.
C9_DisconnectKeepsViewAndRequests ==
    /\ event.op = "disconnect" =>
          /\ account.status = "disconnected"
          /\ Found = event.before
    /\ (event.op = "apply" /\ account.status # "connected") =>
          /\ transfers = BodyTransfers(event.data)
          /\ pagination = BodyPagination(event.data)

\* C9 witness: a response has been applied while the wallet is disconnected.
C9_Witness ==
    /\ event.op = "apply"
    /\ account.status = "disconnected"
    /\ account.address = Undefined
    /\ Len(transfers) = 1

\* C10: when no fetch is in flight, the error message is non-empty if and
\* only if the most recently resolved invocation failed. Stated for the
\* states a resolution leaves; no other step taken with nothing in flight
\* changes the message or resolves an invocation.
C10_ErrorIffLastResolvedFailed ==
    (inflight = <<>> /\ event.op \in ResolveOps) =>
        ((fetchError # "") <=> (event.op \in FailOps))

====
